---- MODULE Spec2Model ----
(***************************************************************************)
(* Model of paw (src/paw.py): a single-session command-line agent.  main() *)
(* seeds a conversation with the user's prompt, run() alternates model     *)
(* turns and tool resolutions for at most MAX_STEPS steps, and             *)
(* save_memory() then asks a second model to summarise the session into    *)
(* the durable log MEMORY.md.                                              *)
(*                                                                         *)
(* Python strings whose characters matter (answers typed at the prompt,    *)
(* file text, log text) are sequences of characters; a character that has  *)
(* no TLA+ escape is the piece that names its code point ("U+00A0").  A    *)
(* text that no operation looks inside (a notice, an error message) is one *)
(* piece.  An optional value (ToolResponse.response / .error) is <<>> for  *)
(* None and <<v>> for a value v.                                           *)
(*                                                                         *)
(* Exceptions are those the calls of the program raise (the model call,    *)
(* input() at the prompt, a tool handler, the stages of save_memory());    *)
(* signals delivered to the process at arbitrary points are left out.      *)
(*                                                                         *)
(* Spec is a session of main() and run().  ToolsSpec applies the handlers  *)
(* update_file and bash, and load_recent_memory, on their own to inputs    *)
(* drawn from bounded sets.  MemorySpec follows MEMORY.md over several     *)
(* sessions run one after the other in the same directory.                 *)
(***************************************************************************)
EXTENDS Integers, Sequences, FiniteSets, TLC

VARIABLES
    pc,                 \* position of main()/run(): see PcValues
    step,               \* iterations of the for loop of run() begun so far
    messages,           \* chat.messages (after the system message)
    tool_calls,         \* run(): tool_calls of the current turn
    responses,          \* run(): responses collected so far in the current turn
    answer,             \* what the user typed at the prompt of the call resolved last: Some(text), None without a prompt
    allowed,            \* the value confirm_tool() returned for the call being resolved
    pending_images,     \* module global _pending_images
    pending_documents,  \* module global _pending_documents
    fs,                 \* the files the tools read and write: path -> text or Absent
    invoked,            \* environment: the calls handed to toolkit.execute_tool_call, in order
    requested,          \* environment: Len(messages) at each model request, in order
    staged,             \* environment: attachments staged during the current step, in staging order
    memory_file,        \* MEMORY.md: its text, or Absent
    summaries,          \* environment: the conversations handed to save_memory(), in order
    out,                \* what run() and main() print, but for the previews of calls and results
    rich,               \* script of the model under test: tool calls requested outside default turns
    appended,           \* environment: the entries save_memory() wrote to MEMORY.md, in order
    given,              \* the inputs of the function applied on its own (ToolsSpec), of the call in main() (MemorySpec)
    result,             \* what that function returned: Some(value), None before the call and once main() has moved on
    torn,               \* environment: the writes to MEMORY.md that failed after bytes were written
    summary,            \* save_memory(): Some(entry) once the summarising model has returned it, None otherwise
    script,             \* which script the model under test follows: "full" or "memory"
    foreign             \* environment: MEMORY.md holds text a shell command wrote

vars == <<pc, step, messages, tool_calls, responses, answer, allowed,
          pending_images, pending_documents, fs, invoked, requested, staged,
          memory_file, summaries, out, rich, appended, given, result,
          torn, summary, script, foreign>>

-----------------------------------------------------------------------------
(* Program constants *)

MAX_STEPS == 20

\* load_recent_memory(n=3): the n of the call in main()
DEFAULT_N == 3

CONFIRM_TOOLS == {"write_file", "update_file", "bash"}

IMAGE_EXTENSIONS == {".png", ".jpg", ".jpeg", ".gif", ".webp"}

DOCUMENT_EXTENSIONS == {".pdf"}

\* ToolKit([read_file, write_file, update_file, bash])
REGISTRY == {"read_file", "write_file", "update_file", "bash"}

MIME_TYPES ==
    [e \in IMAGE_EXTENSIONS \cup DOCUMENT_EXTENSIONS |->
        CASE e = ".png" -> "image/png"
          [] e = ".jpg" -> "image/jpeg"
          [] e = ".jpeg" -> "image/jpeg"
          [] e = ".gif" -> "image/gif"
          [] e = ".webp" -> "image/webp"
          [] e = ".pdf" -> "application/pdf"]

DENIED_TEXT == <<"User denied this action.">>

MAX_STEPS_NOTICE == <<"(max steps reached)">>

FLUSH_TEXT == <<"Here are the requested files:">>

NO_OUTPUT == <<"(no output)">>

-----------------------------------------------------------------------------
(* Bounds of the model *)

\* most tool-call requests in one model turn
MaxCalls == 2

\* most tool-call requests of a run that the model under test emits outside
\* its default turns
MaxRichCalls == 2

\* longest file text handed to update_file on its own
MaxTextLen == 3

\* longest search string handed to update_file on its own
MaxOldLen == 2

\* largest exit status of a shell command
MaxExit == 2

\* most entries of the log handed to load_recent_memory on its own
MaxEntries == 5

\* most writes of save_memory() to a MEMORY.md that no shell command replaces
MaxSaves == 3

\* most characters a failing write leaves in MEMORY.md
MaxTorn == 2

\* most writes to MEMORY.md that fail after characters were written
MaxTornWrites == 1

\* largest n handed to load_recent_memory
MaxRecent == 3

-----------------------------------------------------------------------------
(* Values *)

Absent == <<"<absent>">>

None == <<>>

Some(v) == <<v>>

-----------------------------------------------------------------------------
(* Python string operations *)

\* the characters c with c.isspace(), which str.strip() removes; a character
\* that cannot be written in a string of this module is the piece that names
\* its code point
Whitespace ==
    { " ", "\t", "\n", "\r", "\f", "U+000B", "U+001C", "U+001D", "U+001E", "U+001F",
      "U+0085", "U+00A0", "U+1680", "U+2000", "U+2001", "U+2002", "U+2003",
      "U+2004", "U+2005", "U+2006", "U+2007", "U+2008", "U+2009", "U+200A",
      "U+2028", "U+2029", "U+202F", "U+205F", "U+3000" }

\* str.lower(), on the letters the model's inputs use
LowerChar(c) ==
    CASE c = "Y" -> "y"
      [] c = "E" -> "e"
      [] c = "S" -> "s"
      [] c = "N" -> "n"
      [] c = "O" -> "o"
      [] c = "K" -> "k"
      [] OTHER -> c

Lower(s) == [i \in 1..Len(s) |-> LowerChar(s[i])]

RECURSIVE LStrip(_)
LStrip(s) == IF s # <<>> /\ Head(s) \in Whitespace THEN LStrip(Tail(s)) ELSE s

RECURSIVE RStrip(_)
RStrip(s) ==
    IF s # <<>> /\ s[Len(s)] \in Whitespace THEN RStrip(SubSeq(s, 1, Len(s) - 1)) ELSE s

\* "".join(parts)
RECURSIVE Join(_)
Join(parts) == IF parts = <<>> THEN <<>> ELSE Head(parts) \o Join(Tail(parts))

\* str.strip()
Strip(s) == RStrip(LStrip(s))

\* s.startswith(p)
StartsWith(s, p) == Len(p) <= Len(s) /\ SubSeq(s, 1, Len(p)) = p

\* s.endswith(p)
EndsWith(s, p) == Len(p) <= Len(s) /\ SubSeq(s, Len(s) - Len(p) + 1, Len(s)) = p

\* sep.join(parts)
RECURSIVE JoinWith(_, _)
JoinWith(sep, parts) ==
    IF parts = <<>> THEN <<>>
    ELSE IF Len(parts) = 1 THEN Head(parts)
    ELSE Head(parts) \o sep \o JoinWith(sep, Tail(parts))

\* s[-n:], for n >= 0
LastSlice(s, n) ==
    IF n = 0 \/ n >= Len(s) THEN s ELSE SubSeq(s, Len(s) - n + 1, Len(s))

\* the positions at which old occurs in text
Occurrences(text, old) ==
    {i \in 1..(Len(text) - Len(old) + 1) : SubSeq(text, i, i + Len(old) - 1) = old}

\* old in text
Contains(text, old) == Occurrences(text, old) # {}

Min(S) == CHOOSE x \in S : \A y \in S : x <= y

\* the pieces of text from position from on, cut at the occurrences of sep
\* (at: the positions at which sep occurs in text) taken from left to right,
\* an occurrence that overlaps the one before being none
RECURSIVE SplitFrom(_, _, _, _)
SplitFrom(text, sep, at, from) ==
    LET rest == {i \in at : i >= from}
    IN  IF rest = {} THEN <<SubSeq(text, from, Len(text))>>
        ELSE <<SubSeq(text, from, Min(rest) - 1)>>
                \o SplitFrom(text, sep, at, Min(rest) + Len(sep))

\* text.split(sep), sep not empty
Split(text, sep) == SplitFrom(text, sep, Occurrences(text, sep), 1)

\* mutant: the last occurrence is replaced
ReplaceFirst_Last(text, old, new) ==
    IF ~Contains(text, old) THEN text
    ELSE LET i == CHOOSE x \in Occurrences(text, old) :
                      \A y \in Occurrences(text, old) : y <= x
         IN SubSeq(text, 1, i - 1) \o new \o SubSeq(text, i + Len(old), Len(text))

\* text.replace(old, new, 1)
ReplaceFirst(text, old, new) ==
    IF ~Contains(text, old) THEN text
    ELSE LET i == Min(Occurrences(text, old))
         IN SubSeq(text, 1, i - 1) \o new \o SubSeq(text, i + Len(old), Len(text))

-----------------------------------------------------------------------------
(* The files and inputs of the model *)

Paths == {"notes.txt", "pic.PNG", "shot.jpg", "doc.pdf", "missing.txt"}

\* Path(path).suffix
Suffix(path) ==
    CASE path = "notes.txt" -> ".txt"
      [] path = "pic.PNG" -> ".PNG"
      [] path = "shot.jpg" -> ".jpg"
      [] path = "doc.pdf" -> ".pdf"
      [] path = "missing.txt" -> ".txt"

\* str.lower() of a suffix
LowerSuffix(e) == IF e = ".PNG" THEN ".png" ELSE e

\* the files on disk when the session starts
InitialFiles ==
    [p \in Paths |->
        CASE p = "notes.txt" -> <<"a", "b", "a">>
          [] p = "pic.PNG" -> <<"P">>
          [] p = "shot.jpg" -> <<"J">>
          [] p = "doc.pdf" -> <<"D">>
          [] p = "missing.txt" -> Absent]

\* a file a shell command leaves behind: its path and its text (Absent when
\* the command removes it)
FileWrite(path, text) == [path |-> path, text |-> text]

\* what a shell command can do: write and remove files (writes, in order)
\* and finish with (stdout, stderr, exit status), or run into the 120 s
\* timeout of subprocess.run
BashRuns ==
    { [stdout |-> <<"o">>, stderr |-> <<>>, returncode |-> 0, timeout |-> FALSE,
       writes |-> <<FileWrite("notes.txt", <<"x">>)>>],
      [stdout |-> <<>>, stderr |-> <<"e">>, returncode |-> 1, timeout |-> FALSE,
       writes |-> <<FileWrite("notes.txt", Absent), FileWrite("MEMORY.md", <<"x">>)>>],
      [stdout |-> <<>>, stderr |-> <<>>, returncode |-> 0, timeout |-> TRUE,
       writes |-> <<FileWrite("notes.txt", <<"x">>)>>] }

\* what the user can type at the "Allow? [Y/n]" prompt
Answers ==
    { <<>>, <<"y">>, <<"\f", "Y", "E", "S", "U+00A0">>,
      <<"n">>, <<"N", "O">>, <<"o", "k">>, <<" ">> }

ToolCall(name, arguments) == [name |-> name, arguments |-> arguments]

\* the tool-call requests the model under test can emit
ReadCalls == {ToolCall("read_file", <<p>>) : p \in Paths}

WriteCalls == {ToolCall("write_file", <<"notes.txt", <<"b">>>>)}

UpdateCalls == {ToolCall("update_file", <<"notes.txt", <<"z">>, <<"x">>>>)}

BashCalls == {ToolCall("bash", <<"cmd">>)}

UnknownCalls == {ToolCall("delete_file", <<"notes.txt">>)}

Calls == ReadCalls \cup WriteCalls \cup UpdateCalls \cup BashCalls \cup UnknownCalls

\* the shell commands on MEMORY.md that the model under test can request
WriteLogCall == ToolCall("bash", <<"printf x > MEMORY.md">>)

RemoveLogCall == ToolCall("bash", <<"rm MEMORY.md">>)

MemoryCalls == {WriteLogCall, RemoveLogCall}

\* what the shell command of the call tc can do, MEMORY.md being file: the
\* redirection leaves the file with the text printed, rm removes the file or
\* fails without one, any other command is one of BashRuns; the call of
\* another tool runs no command
ShellRunsOf(tc, file) ==
    IF tc.name # "bash"
    THEN { [stdout |-> <<>>, stderr |-> <<>>, returncode |-> 0, timeout |-> FALSE,
            writes |-> <<>>] }
    ELSE IF tc = WriteLogCall
    THEN { [stdout |-> <<>>, stderr |-> <<>>, returncode |-> 0, timeout |-> FALSE,
            writes |-> <<FileWrite("MEMORY.md", <<"x">>)>>] }
    ELSE IF tc = RemoveLogCall
    THEN IF file = Absent
         THEN { [stdout |-> <<>>,
                 stderr |-> <<"rm: cannot remove 'MEMORY.md': No such file or directory\n">>,
                 returncode |-> 1, timeout |-> FALSE, writes |-> <<>>] }
         ELSE { [stdout |-> <<>>, stderr |-> <<>>, returncode |-> 0, timeout |-> FALSE,
                 writes |-> <<FileWrite("MEMORY.md", Absent)>>] }
    ELSE BashRuns

\* the inputs of update_file called on its own: the text of the file (or no
\* file), the string searched for and its replacement
Chars == {"a", "b"}

Texts == UNION { [1..n -> Chars] : n \in 0..MaxTextLen }

Olds == UNION { [1..n -> Chars] : n \in 0..MaxOldLen }

News == { <<>>, <<"x">>, <<"a", "a">> }

\* what a shell command can do, for bash called on its own
ShellWrites ==
    { <<>>,
      <<FileWrite("notes.txt", <<"x">>)>>,
      <<FileWrite("notes.txt", Absent)>>,
      <<FileWrite("missing.txt", <<"m">>), FileWrite("missing.txt", <<"m", "m">>)>>,
      <<FileWrite("MEMORY.md", <<"x">>)>> }

ShellRuns ==
    [stdout : {<<>>, <<"o">>, <<"o", "\n">>}, stderr : {<<>>, <<"e">>},
     returncode : (-1)..MaxExit, timeout : {FALSE}, writes : ShellWrites]
    \cup {r \in BashRuns : r.timeout}

\* the delimiter line of the memory log, without its newline
DASHES == <<"-", "-", "-">>

NL == <<"\n">>

\* an entry that is a title alone, without the final newline
TitleEntry == DASHES \o NL \o <<"#", " ", "1">> \o NL \o DASHES

\* the entries the summarising model can return: a title alone, without the
\* final newline; a title and a body that has three dashes in a sentence; an
\* entry after an empty line
Entries ==
    { TitleEntry,
      DASHES \o NL \o <<"#", " ", "2">> \o NL \o NL
             \o <<"a", " ">> \o DASHES \o <<" ", "b">> \o NL \o DASHES \o NL,
      NL \o DASHES \o NL \o <<"#", " ", "3">> \o NL \o DASHES \o NL }

\* the entries the summarising model returns under the script followed: any
\* of Entries under "memory", the title alone under "full"
SummaryEntries == IF script = "memory" THEN Entries ELSE {TitleEntry}

\* the inputs of load_recent_memory called on its own: the entries that
\* save_memory() wrote to MEMORY.md, in order
EntryLogs == UNION { [1..k -> Entries] : k \in 0..MaxEntries }

ToolInputs ==
    [tool : {"update_file"}, text : Texts \cup {Absent}, old : Olds, new : News]
    \cup [tool : {"bash"}, run : ShellRuns]
    \cup [tool : {"load_recent_memory"}, entries : EntryLogs, n : 0..MaxRecent]

-----------------------------------------------------------------------------
(* Tools.  A tool applied to the state it reads gives what the handler does:  *)
(* kind "return" (value returned), "ToolError" (value is the message of the   *)
(* ToolError raised) or "exception" (another exception is raised), and the    *)
(* files and pending attachments it leaves.                                   *)

Outcome(kind, value, files, images, documents) ==
    [kind |-> kind, value |-> value, fs |-> files,
     images |-> images, documents |-> documents]

\* _to_data_url(path), for a file that exists
ToDataUrl(path, files) ==
    [mime |-> MIME_TYPES[LowerSuffix(Suffix(path))], base64 |-> files[path]]

read_file(path, files, images, documents) ==
    LET ext == LowerSuffix(Suffix(path))
        missing == Outcome("exception", <<"FileNotFoundError">>, files, images, documents)
    IN  IF ext \in IMAGE_EXTENSIONS
        THEN IF files[path] = Absent THEN missing
             ELSE Outcome("return", <<"Image loaded: ", path>>, files,
                          Append(images, ToDataUrl(path, files)), documents)
        ELSE IF ext \in DOCUMENT_EXTENSIONS
        THEN IF files[path] = Absent THEN missing
             ELSE Outcome("return", <<"Document loaded: ", path>>, files,
                          images, Append(documents, ToDataUrl(path, files)))
        ELSE IF files[path] = Absent THEN missing
             ELSE Outcome("return", files[path], files, images, documents)

write_file(path, content, files, images, documents) ==
    Outcome("return", <<"Written ", ToString(Len(content)), " bytes to ", path>>,
            [files EXCEPT ![path] = content], images, documents)

\* mutant: the file is rewritten without the membership test
update_file_NoTest(path, old, new, files, images, documents) ==
    IF files[path] = Absent
    THEN Outcome("exception", <<"FileNotFoundError">>, files, images, documents)
    ELSE Outcome("return", <<"Updated ", path>>,
                 [files EXCEPT ![path] = new \o files[path]],
                 images, documents)

update_file(path, old, new, files, images, documents) ==
    IF files[path] = Absent
    THEN Outcome("exception", <<"FileNotFoundError">>, files, images, documents)
    ELSE IF ~Contains(files[path], old)
    THEN Outcome("ToolError", <<"String not found in ", path>>, files, images, documents)
    ELSE Outcome("return", <<"Updated ", path>>,
                 [files EXCEPT ![path] = ReplaceFirst(files[path], old, new)],
                 images, documents)

\* mutant: an empty output is returned as it is
BashOutput_NoPlaceholder(r) ==
    LET output1 == IF r.stderr # <<>> THEN r.stdout \o r.stderr ELSE r.stdout
    IN  IF r.returncode # 0
        THEN output1 \o <<"\n(exit code: ", ToString(r.returncode), ")">>
        ELSE output1

\* lines 93-98 of bash(): the string built from a finished command
BashOutput(r) ==
    LET output1 == IF r.stderr # <<>> THEN r.stdout \o r.stderr ELSE r.stdout
        output2 == IF r.returncode # 0
                   THEN output1 \o <<"\n(exit code: ", ToString(r.returncode), ")">>
                   ELSE output1
    IN  IF output2 # <<>> THEN output2 ELSE NO_OUTPUT

\* the files of fs after a shell command wrote writes
RECURSIVE ApplyWrites(_, _)
ApplyWrites(files, writes) ==
    IF writes = <<>> THEN files
    ELSE LET w == Head(writes)
         IN  ApplyWrites(IF w.path \in Paths THEN [files EXCEPT ![w.path] = w.text]
                         ELSE files,
                         Tail(writes))

\* MEMORY.md after a shell command wrote writes
RECURSIVE MemoryAfter(_, _)
MemoryAfter(file, writes) ==
    IF writes = <<>> THEN file
    ELSE LET w == Head(writes)
         IN  MemoryAfter(IF w.path = "MEMORY.md" THEN w.text ELSE file, Tail(writes))

\* the entries of MEMORY.md that save_memory() wrote, after a shell command
\* wrote writes: none of a file the command wrote or removed
AppendedAfter(entries, writes) ==
    IF \E i \in 1..Len(writes) : writes[i].path = "MEMORY.md" THEN <<>> ELSE entries

\* whether MEMORY.md holds text of a shell command, after one wrote writes
ForeignAfter(was, writes) ==
    IF \E i \in 1..Len(writes) : writes[i].path = "MEMORY.md"
    THEN MemoryAfter(Absent, writes) # Absent
    ELSE was

\* bash(command): the command is run by a shell, which leaves the files it
\* wrote; the string returned is built from what the command printed
bash(r, files, images, documents) ==
    IF r.timeout
    THEN Outcome("exception", <<"TimeoutExpired">>, ApplyWrites(files, r.writes),
                 images, documents)
    ELSE Outcome("return", BashOutput(r), ApplyWrites(files, r.writes),
                 images, documents)

\* the handler registered under tc.name, applied to tc.arguments; r is what
\* the shell command does when the handler is bash
RunTool(tc, r, files, images, documents) ==
    CASE tc.name = "read_file" ->
            read_file(tc.arguments[1], files, images, documents)
      [] tc.name = "write_file" ->
            write_file(tc.arguments[1], tc.arguments[2], files, images, documents)
      [] tc.name = "update_file" ->
            update_file(tc.arguments[1], tc.arguments[2], tc.arguments[3],
                        files, images, documents)
      [] tc.name = "bash" ->
            bash(r, files, images, documents)

ToolResponse(call, response, error) ==
    [call |-> call, response |-> response, error |-> error]

\* toolkit.execute_tool_call(tc).  ToolKit is code of the library think, which
\* is not among the sources; it is modelled after sections 4.2 and 7 of the
\* specification: an unknown name and every failure of the handler (a
\* ToolError, a file that is not found, the timeout of the shell) become an
\* error response, and the call raises nothing (raised |-> FALSE)
ExecuteToolCall(tc, r, files, images, documents) ==
    IF tc.name \notin REGISTRY
    THEN [raised |-> FALSE,
          tr |-> ToolResponse(tc, None, Some(<<"unknown tool: ", tc.name>>)),
          fs |-> files, images |-> images, documents |-> documents]
    ELSE LET o == RunTool(tc, r, files, images, documents)
         IN  [raised |-> FALSE,
              tr |-> IF o.kind = "return"
                     THEN ToolResponse(tc, Some(o.value), None)
                     ELSE ToolResponse(tc, None, Some(o.value)),
              fs |-> o.fs, images |-> o.images, documents |-> o.documents]

\* mutant: the prompt is shown and its answer ignored
ConfirmTool_AnswerIgnored(name, typed) == TRUE

\* mutant: the answer is compared without .lower()
ConfirmTool_NoLower(name, typed) ==
    IF name \notin CONFIRM_TOOLS THEN TRUE
    ELSE Strip(typed) \in {<<>>, <<"y">>, <<"y", "e", "s">>}

\* confirm_tool(name, args), given what the user types when asked
ConfirmTool(name, typed) ==
    IF name \notin CONFIRM_TOOLS THEN TRUE
    ELSE Lower(Strip(typed)) \in {<<>>, <<"y">>, <<"y", "e", "s">>}

-----------------------------------------------------------------------------
(* Messages *)

TextPart(t) == [type |-> "text", text |-> t]

ToolCallPart(tc) == [type |-> "tool_call", tool_call |-> tc]

ToolResponsePart(tr) == [type |-> "tool_response", tool_response |-> tr]

ImagePart(url) == [type |-> "image", image |-> url]

DocumentPart(url) == [type |-> "document", document |-> url]

Message(role, content) == [role |-> role, content |-> content]

MapSeq(Op(_), s) == [i \in 1..Len(s) |-> Op(s[i])]

\* Message.user(text, images=..., documents=...)
UserMessage(text, images, documents) ==
    Message("user", <<TextPart(text)>> \o MapSeq(ImagePart, images)
                                       \o MapSeq(DocumentPart, documents))

\* lines 145-149 of run(): the tool calls of a message, in order
ToolCallsOf(content) ==
    LET IsCall(part) == part.type = "tool_call"
        Part(part) == part.tool_call
    IN  MapSeq(Part, SelectSeq(content, IsCall))

\* lines 145-147 of run(): the non-empty text fragments of a message, in order
TextPartsOf(content) ==
    LET IsText(part) == part.type = "text" /\ part.text # <<>>
        Part(part) == part.text
    IN  MapSeq(Part, SelectSeq(content, IsText))

-----------------------------------------------------------------------------
(* The model under test: what llm._internal_call can return *)

DefaultCall == ToolCall("read_file", <<"notes.txt">>)

DefaultTurn == <<TextPart(<<"reading">>), ToolCallPart(DefaultCall)>>

\* a final answer: text only (an empty text part among it)
FinalTurns == { <<TextPart(<<>>), TextPart(<<"done">>)>> }

\* the turns made of n tool-call requests
RichTurns(n) == [1..n -> {ToolCallPart(c) : c \in Calls}]

\* The script of the model under test.  Under the script "full" it can
\* answer every step with its default turn or with a final answer; in the last
\* two steps of the loop it can instead request any tool calls, as long as the
\* run stays within MaxRichCalls of those.  Under the script "memory" it
\* answers with a final answer, or in its first step with one shell command on
\* MEMORY.md.  k is the number of the step, r the number of requests made so
\* far outside default turns.
Turns(k, r) ==
    IF script = "memory"
    THEN FinalTurns
         \cup (IF k = 1 THEN {<<ToolCallPart(c)>> : c \in MemoryCalls} ELSE {})
    ELSE {DefaultTurn} \cup FinalTurns
         \cup (IF k \in {MAX_STEPS - 1, MAX_STEPS}
               THEN UNION { RichTurns(n) :
                             n \in {m \in 1..MaxCalls : r + m <= MaxRichCalls} }
               ELSE {})

-----------------------------------------------------------------------------
(* main() and run() *)

PcValues ==
    {"model", "confirm", "execute", "append", "save_memory", "write_memory", "exit",
     "crashed", "handler"}

Prompt == Message("user", <<TextPart(<<"prompt">>)>>)

Init ==
    /\ pc = "model"
    /\ step = 0
    /\ messages = <<Prompt>>
    /\ tool_calls = <<>>
    /\ responses = <<>>
    /\ answer = None
    /\ allowed = FALSE
    /\ pending_images = <<>>
    /\ pending_documents = <<>>
    /\ fs = InitialFiles
    /\ invoked = <<>>
    /\ requested = <<>>
    /\ staged = <<>>
    /\ memory_file = Absent
    /\ summaries = <<>>
    /\ out = <<>>
    /\ rich = 0
    /\ appended = <<>>
    /\ given = None
    /\ result = None
    /\ torn = 0
    /\ summary = None
    /\ script = "full"
    /\ foreign = FALSE

\* mutant: the loop is not left when the turn has no tool calls
ModelTurn_NoBreak ==
    /\ pc = "model"
    /\ step < MAX_STEPS
    /\ \E content \in Turns(step + 1, rich) :
        /\ messages' = Append(messages, Message("assistant", content))
        /\ tool_calls' = ToolCallsOf(content)
        /\ out' = IF TextPartsOf(content) # <<>>
                  THEN Append(out, <<"\n">> \o Join(TextPartsOf(content)))
                  ELSE out
        /\ rich' = IF content = DefaultTurn THEN rich
                   ELSE rich + Len(ToolCallsOf(content))
        /\ pc' = IF ToolCallsOf(content) = <<>> THEN "append" ELSE "confirm"
    /\ step' = step + 1
    /\ requested' = Append(requested, Len(messages))
    /\ responses' = <<>>
    /\ staged' = <<>>
    /\ UNCHANGED <<answer, allowed, pending_images, pending_documents, fs, invoked,
                   memory_file, summaries>>
    /\ UNCHANGED <<appended, given, result, torn, summary, script, foreign>>

\* mutant: a turn without tool calls is not appended to the conversation
ModelTurn_FinalNotAppended ==
    /\ pc = "model"
    /\ step < MAX_STEPS
    /\ \E content \in Turns(step + 1, rich) :
        /\ messages' = IF ToolCallsOf(content) = <<>> THEN messages
                        ELSE Append(messages, Message("assistant", content))
        /\ tool_calls' = ToolCallsOf(content)
        /\ out' = IF TextPartsOf(content) # <<>>
                  THEN Append(out, <<"\n">> \o Join(TextPartsOf(content)))
                  ELSE out
        /\ rich' = IF content = DefaultTurn THEN rich
                   ELSE rich + Len(ToolCallsOf(content))
        /\ pc' = IF ToolCallsOf(content) = <<>> THEN "save_memory" ELSE "confirm"
    /\ step' = step + 1
    /\ requested' = Append(requested, Len(messages))
    /\ responses' = <<>>
    /\ staged' = <<>>
    /\ UNCHANGED <<answer, allowed, pending_images, pending_documents, fs, invoked,
                   memory_file, summaries>>
    /\ UNCHANGED <<appended, given, result, torn, summary, script, foreign>>

\* lines 137-155: one model turn is requested and answered, the assistant
\* message is appended and split; without tool calls the loop is left
ModelTurn ==
    /\ pc = "model"
    /\ step < MAX_STEPS
    /\ \E content \in Turns(step + 1, rich) :
        /\ messages' = Append(messages, Message("assistant", content))
        /\ tool_calls' = ToolCallsOf(content)
        /\ out' = IF TextPartsOf(content) # <<>>
                  THEN Append(out, <<"\n">> \o Join(TextPartsOf(content)))
                  ELSE out
        /\ rich' = IF content = DefaultTurn THEN rich
                   ELSE rich + Len(ToolCallsOf(content))
        /\ pc' = IF ToolCallsOf(content) = <<>> THEN "save_memory" ELSE "confirm"
    /\ step' = step + 1
    /\ requested' = Append(requested, Len(messages))
    /\ responses' = <<>>
    /\ staged' = <<>>
    /\ UNCHANGED <<answer, allowed, pending_images, pending_documents, fs, invoked,
                   memory_file, summaries>>
    /\ UNCHANGED <<appended, given, result, torn, summary, script, foreign>>

\* line 138: the model call raises; nothing in run() or main() catches it
ModelCallFails ==
    /\ pc = "model"
    /\ step < MAX_STEPS
    /\ step' = step + 1
    /\ requested' = Append(requested, Len(messages))
    /\ pc' = "crashed"
    /\ UNCHANGED <<messages, tool_calls, responses, answer, allowed, pending_images,
                   pending_documents, fs, invoked, staged, memory_file, summaries,
                   out, rich>>
    /\ UNCHANGED <<appended, given, result, torn, summary, script, foreign>>

\* line 159: confirm_tool() for the next unresolved call of the turn; when
\* input() raises (EOFError at the end of the input) nothing catches it
Confirm ==
    /\ pc = "confirm"
    /\ LET tc == tool_calls[Len(responses) + 1]
       IN  IF tc.name \in CONFIRM_TOOLS
           THEN \/ \E typed \in Answers :
                    /\ answer' = Some(typed)
                    /\ allowed' = ConfirmTool(tc.name, typed)
                    /\ pc' = "execute"
                \/ /\ answer' = None
                   /\ allowed' = FALSE
                   /\ pc' = "crashed"
           ELSE /\ answer' = None
                /\ allowed' = ConfirmTool(tc.name, <<>>)
                /\ pc' = "execute"
    /\ UNCHANGED <<step, messages, tool_calls, responses, pending_images,
                   pending_documents, fs, invoked, requested, staged, memory_file,
                   summaries, out, rich>>
    /\ UNCHANGED <<appended, given, result, torn, summary, script, foreign>>

\* mutant: the calls of a turn are resolved last first
Resolve_LastFirst ==
    /\ pc = "execute"
    /\ LET tc == tool_calls[Len(tool_calls) - Len(responses)]
           next == IF Len(responses) + 1 = Len(tool_calls) THEN "append" ELSE "confirm"
       IN  IF allowed
           THEN \E r \in ShellRunsOf(tc, memory_file) :
                LET x == ExecuteToolCall(tc, r, fs, pending_images, pending_documents)
                IN  /\ fs' = x.fs
                    /\ pending_images' = x.images
                    /\ pending_documents' = x.documents
                    /\ staged' = staged
                            \o SubSeq(x.images, Len(pending_images) + 1, Len(x.images))
                            \o SubSeq(x.documents, Len(pending_documents) + 1,
                                      Len(x.documents))
                    /\ invoked' = Append(invoked, [step |-> step,
                                                   index |-> Len(responses) + 1,
                                                   call |-> tc])
                    /\ memory_file' = IF tc.name = "bash"
                                       THEN MemoryAfter(memory_file, r.writes)
                                       ELSE memory_file
                    /\ appended' = IF tc.name = "bash"
                                    THEN AppendedAfter(appended, r.writes)
                                    ELSE appended
                    /\ foreign' = IF tc.name = "bash"
                                   THEN ForeignAfter(foreign, r.writes)
                                   ELSE foreign
                    /\ IF x.raised
                       THEN /\ pc' = "crashed"
                            /\ UNCHANGED <<responses, out>>
                       ELSE /\ pc' = next
                            /\ responses' = Append(responses, x.tr)
                            /\ out' = IF x.tr.error # None
                                      THEN Append(out, <<"ERROR">>) ELSE out
           ELSE /\ responses' = Append(responses, ToolResponse(tc, None, Some(DENIED_TEXT)))
                /\ out' = Append(out, <<"DENIED">>)
                /\ pc' = next
                /\ UNCHANGED <<fs, pending_images, pending_documents, staged, invoked,
                               memory_file, appended, foreign>>
    /\ UNCHANGED <<step, messages, tool_calls, answer, allowed, requested,
                   summaries, rich>>
    /\ UNCHANGED <<given, result, torn, summary, script>>

\* mutant: a call that ends in an error ends run()
Resolve_ErrorAborts ==
    /\ pc = "execute"
    /\ LET tc == tool_calls[Len(responses) + 1]
           next == IF Len(responses) + 1 = Len(tool_calls) THEN "append" ELSE "confirm"
       IN  IF allowed
           THEN \E r \in ShellRunsOf(tc, memory_file) :
                LET x == ExecuteToolCall(tc, r, fs, pending_images, pending_documents)
                IN  /\ fs' = x.fs
                    /\ pending_images' = x.images
                    /\ pending_documents' = x.documents
                    /\ staged' = staged
                            \o SubSeq(x.images, Len(pending_images) + 1, Len(x.images))
                            \o SubSeq(x.documents, Len(pending_documents) + 1,
                                      Len(x.documents))
                    /\ invoked' = Append(invoked, [step |-> step,
                                                   index |-> Len(responses) + 1,
                                                   call |-> tc])
                    /\ memory_file' = IF tc.name = "bash"
                                       THEN MemoryAfter(memory_file, r.writes)
                                       ELSE memory_file
                    /\ appended' = IF tc.name = "bash"
                                    THEN AppendedAfter(appended, r.writes)
                                    ELSE appended
                    /\ foreign' = IF tc.name = "bash"
                                   THEN ForeignAfter(foreign, r.writes)
                                   ELSE foreign
                    /\ IF x.raised \/ x.tr.error # None
                       THEN /\ pc' = "crashed"
                            /\ UNCHANGED <<responses, out>>
                       ELSE /\ pc' = next
                            /\ responses' = Append(responses, x.tr)
                            /\ out' = IF x.tr.error # None
                                      THEN Append(out, <<"ERROR">>) ELSE out
           ELSE /\ responses' = Append(responses, ToolResponse(tc, None, Some(DENIED_TEXT)))
                /\ out' = Append(out, <<"DENIED">>)
                /\ pc' = next
                /\ UNCHANGED <<fs, pending_images, pending_documents, staged, invoked,
                               memory_file, appended, foreign>>
    /\ UNCHANGED <<step, messages, tool_calls, answer, allowed, requested,
                   summaries, rich>>
    /\ UNCHANGED <<given, result, torn, summary, script>>

\* lines 160-173: the call is executed, or replaced by the denial result; an
\* exception of toolkit.execute_tool_call would leave run(), which has no
\* handler for it
Resolve ==
    /\ pc = "execute"
    /\ LET tc == tool_calls[Len(responses) + 1]
           next == IF Len(responses) + 1 = Len(tool_calls) THEN "append" ELSE "confirm"
       IN  IF allowed
           THEN \E r \in ShellRunsOf(tc, memory_file) :
                LET x == ExecuteToolCall(tc, r, fs, pending_images, pending_documents)
                IN  /\ fs' = x.fs
                    /\ pending_images' = x.images
                    /\ pending_documents' = x.documents
                    /\ staged' = staged
                            \o SubSeq(x.images, Len(pending_images) + 1, Len(x.images))
                            \o SubSeq(x.documents, Len(pending_documents) + 1,
                                      Len(x.documents))
                    /\ invoked' = Append(invoked, [step |-> step,
                                                   index |-> Len(responses) + 1,
                                                   call |-> tc])
                    /\ memory_file' = IF tc.name = "bash"
                                       THEN MemoryAfter(memory_file, r.writes)
                                       ELSE memory_file
                    /\ appended' = IF tc.name = "bash"
                                    THEN AppendedAfter(appended, r.writes)
                                    ELSE appended
                    /\ foreign' = IF tc.name = "bash"
                                   THEN ForeignAfter(foreign, r.writes)
                                   ELSE foreign
                    /\ IF x.raised
                       THEN /\ pc' = "crashed"
                            /\ UNCHANGED <<responses, out>>
                       ELSE /\ pc' = next
                            /\ responses' = Append(responses, x.tr)
                            /\ out' = IF x.tr.error # None
                                      THEN Append(out, <<"ERROR">>) ELSE out
           ELSE /\ responses' = Append(responses, ToolResponse(tc, None, Some(DENIED_TEXT)))
                /\ out' = Append(out, <<"DENIED">>)
                /\ pc' = next
                /\ UNCHANGED <<fs, pending_images, pending_documents, staged, invoked,
                               memory_file, appended, foreign>>
    /\ UNCHANGED <<step, messages, tool_calls, answer, allowed, requested,
                   summaries, rich>>
    /\ UNCHANGED <<given, result, torn, summary, script>>

\* mutant: the pending queues are not cleared after the flush
AppendResults_NoClear ==
    /\ pc = "append"
    /\ LET tool_message == Message("tool", MapSeq(ToolResponsePart, responses))
       IN  IF pending_images # <<>> \/ pending_documents # <<>>
           THEN messages' = messages \o <<tool_message,
                               UserMessage(FLUSH_TEXT, pending_images, pending_documents)>>
           ELSE messages' = Append(messages, tool_message)
    /\ UNCHANGED <<pending_images, pending_documents>>
    /\ IF step = MAX_STEPS
       THEN /\ out' = Append(out, MAX_STEPS_NOTICE)
            /\ pc' = "save_memory"
       ELSE /\ out' = out
            /\ pc' = "model"
    /\ answer' = None
    /\ UNCHANGED <<step, tool_calls, responses, allowed, fs, invoked,
                   requested, staged, memory_file, summaries, rich>>
    /\ UNCHANGED <<appended, given, result, torn, summary, script, foreign>>

\* mutant: the loop is left one pass early, without the notice
AppendResults_StrayBreak ==
    /\ pc = "append"
    /\ LET tool_message == Message("tool", MapSeq(ToolResponsePart, responses))
       IN  IF pending_images # <<>> \/ pending_documents # <<>>
           THEN messages' = messages \o <<tool_message,
                               UserMessage(FLUSH_TEXT, pending_images, pending_documents)>>
           ELSE messages' = Append(messages, tool_message)
    /\ pending_images' = <<>>
    /\ pending_documents' = <<>>
    /\ IF step = MAX_STEPS \/ step = MAX_STEPS - 1
       THEN /\ out' = IF step = MAX_STEPS THEN Append(out, MAX_STEPS_NOTICE) ELSE out
            /\ pc' = "save_memory"
       ELSE /\ out' = out
            /\ pc' = "model"
    /\ answer' = None
    /\ UNCHANGED <<step, tool_calls, responses, allowed, fs, invoked,
                   requested, staged, memory_file, summaries, rich>>
    /\ UNCHANGED <<appended, given, result, torn, summary, script, foreign>>

\* mutant: the attachments are flushed before the tool message is appended
AppendResults_FlushFirst ==
    /\ pc = "append"
    /\ LET tool_message == Message("tool", MapSeq(ToolResponsePart, responses))
       IN  IF pending_images # <<>> \/ pending_documents # <<>>
           THEN messages' = messages \o <<UserMessage(FLUSH_TEXT, pending_images,
                                                      pending_documents),
                                          tool_message>>
           ELSE messages' = Append(messages, tool_message)
    /\ pending_images' = <<>>
    /\ pending_documents' = <<>>
    /\ IF step = MAX_STEPS
       THEN /\ out' = Append(out, MAX_STEPS_NOTICE)
            /\ pc' = "save_memory"
       ELSE /\ out' = out
            /\ pc' = "model"
    /\ answer' = None
    /\ UNCHANGED <<step, tool_calls, responses, allowed, fs, invoked,
                   requested, staged, memory_file, summaries, rich>>
    /\ UNCHANGED <<appended, given, result, torn, summary, script, foreign>>

\* lines 175-196: the results become one tool message, staged attachments are
\* flushed into a user message, and the loop goes on or runs out of steps
AppendResults ==
    /\ pc = "append"
    /\ LET tool_message == Message("tool", MapSeq(ToolResponsePart, responses))
       IN  IF pending_images # <<>> \/ pending_documents # <<>>
           THEN messages' = messages \o <<tool_message,
                               UserMessage(FLUSH_TEXT, pending_images, pending_documents)>>
           ELSE messages' = Append(messages, tool_message)
    /\ pending_images' = <<>>
    /\ pending_documents' = <<>>
    /\ IF step = MAX_STEPS
       THEN /\ out' = Append(out, MAX_STEPS_NOTICE)
            /\ pc' = "save_memory"
       ELSE /\ out' = out
            /\ pc' = "model"
    /\ answer' = None
    /\ UNCHANGED <<step, tool_calls, responses, allowed, fs, invoked,
                   requested, staged, memory_file, summaries, rich>>
    /\ UNCHANGED <<appended, given, result, torn, summary, script, foreign>>

\* the text of MEMORY.md, empty when there is no file
FileText(file) == IF file = Absent THEN <<>> ELSE file

\* load_recent_memory(n), MEMORY.md being file
load_recent_memory(file, n) ==
    IF file = Absent THEN <<>>
    ELSE LET text == Strip(file)
             NonEmpty(e) == e # <<>>
             entries == SelectSeq(MapSeq(Strip, Split(text, DASHES)), NonEmpty)
             recent == LastSlice(entries, n)
         IN  IF text = <<>> THEN <<>>
             ELSE DASHES \o NL \o JoinWith(NL \o DASHES \o NL, recent)
                                \o NL \o DASHES

\* mutant: MEMORY.md is opened for writing, not for appending
AppendEntry_Truncates(file, entry) ==
    LET trail == IF ~EndsWith(entry, <<"\n">>) THEN <<"\n">> ELSE <<>>
    IN  entry \o trail

\* mutant: no newline is written before an entry
AppendEntry_NoLead(file, entry) ==
    LET old == IF file = Absent THEN <<>> ELSE file
        trail == IF ~EndsWith(entry, <<"\n">>) THEN <<"\n">> ELSE <<>>
    IN  old \o entry \o trail

\* lines 242-246 of save_memory(): what is written to MEMORY.md for entry
Written(file, entry) ==
    LET lead == IF FileText(file) # <<>> /\ ~StartsWith(entry, <<"\n">>)
                THEN <<"\n">> ELSE <<>>
        trail == IF ~EndsWith(entry, <<"\n">>) THEN <<"\n">> ELSE <<>>
    IN  lead \o entry \o trail

\* lines 241-246 of save_memory(): MEMORY.md after entry is appended
AppendEntry(file, entry) == FileText(file) \o Written(file, entry)

\* lines 241-246 of save_memory(): MEMORY.md after the write failed with n
\* characters written
TornAppend(file, entry, n) == FileText(file) \o SubSeq(Written(file, entry), 1, n)

\* MEMORY.md after save_memory() wrote entries, one call after the other, to
\* a directory without the file
RECURSIVE LogOf(_)
LogOf(entries) ==
    IF entries = <<>> THEN Absent
    ELSE AppendEntry(LogOf(SubSeq(entries, 1, Len(entries) - 1)),
                     entries[Len(entries)])

\* where save_memory() can raise: LLM.from_url (line 235), the summarisation
\* call (line 239), open() of the log (line 241), a write to it (lines 243-246)
SaveFailures == {"from_url", "memory_llm", "open", "write"}

MemoryWarning(e) == <<"(failed to save memory: ", e, ")">>

\* mutant: save_memory() is called outside try/except
SaveMemory_NoTry ==
    /\ pc = "save_memory"
    /\ summaries' = Append(summaries, messages)
    /\ \/ \E entry \in SummaryEntries :
            /\ summary' = Some(entry)
            /\ out' = out
            /\ pc' = "write_memory"
       \/ \E e \in {"from_url", "memory_llm"} :
            /\ summary' = None
            /\ out' = Append(out, MemoryWarning(e))
            /\ pc' = "crashed"
    /\ UNCHANGED <<step, messages, tool_calls, responses, answer, allowed,
                   pending_images, pending_documents, fs, invoked, requested, staged,
                   memory_file, rich>>
    /\ given' = None
    /\ result' = None
    /\ UNCHANGED <<appended, torn, script, foreign>>

\* mutant: save_memory() is given the conversation without its last message
SaveMemory_StaleChat ==
    /\ pc = "save_memory"
    /\ summaries' = Append(summaries, SubSeq(messages, 1, Len(messages) - 1))
    /\ \/ \E entry \in SummaryEntries :
            /\ summary' = Some(entry)
            /\ out' = out
            /\ pc' = "write_memory"
       \/ \E e \in {"from_url", "memory_llm"} :
            /\ summary' = None
            /\ out' = Append(out, MemoryWarning(e))
            /\ pc' = "exit"
    /\ UNCHANGED <<step, messages, tool_calls, responses, answer, allowed,
                   pending_images, pending_documents, fs, invoked, requested, staged,
                   memory_file, rich>>
    /\ given' = None
    /\ result' = None
    /\ UNCHANGED <<appended, torn, script, foreign>>

\* line 314 of main() and lines 231-239 of save_memory(): save_memory(chat,
\* timestamp) is called inside try/except and awaits the summarising model,
\* which returns an entry; an exception raised by LLM.from_url or by the model
\* call is printed as a warning (lines 315-316) and main() returns
SaveMemory ==
    /\ pc = "save_memory"
    /\ summaries' = Append(summaries, messages)
    /\ \/ \E entry \in SummaryEntries :
            /\ summary' = Some(entry)
            /\ out' = out
            /\ pc' = "write_memory"
       \/ \E e \in {"from_url", "memory_llm"} :
            /\ summary' = None
            /\ out' = Append(out, MemoryWarning(e))
            /\ pc' = "exit"
    /\ UNCHANGED <<step, messages, tool_calls, responses, answer, allowed,
                   pending_images, pending_documents, fs, invoked, requested, staged,
                   memory_file, rich>>
    /\ given' = None
    /\ result' = None
    /\ UNCHANGED <<appended, torn, script, foreign>>

\* lines 241-246 of save_memory(): the entry is appended to MEMORY.md; open()
\* may fail, and a write may fail after n characters reached the file; the
\* exception is printed as a warning (lines 315-316) and main() returns
WriteMemory ==
    /\ pc = "write_memory"
    /\ \/ /\ memory_file' = AppendEntry(memory_file, summary[1])
          /\ appended' = Append(appended, summary[1])
          /\ torn' = torn
          /\ out' = out
       \/ /\ UNCHANGED <<memory_file, appended, torn>>
          /\ out' = Append(out, MemoryWarning("open"))
       \/ \E n \in 0..MaxTorn :
            /\ n < Len(Written(memory_file, summary[1]))
            /\ n > 0 => torn < MaxTornWrites
            /\ memory_file' = TornAppend(memory_file, summary[1], n)
            /\ appended' = appended
            /\ torn' = IF n > 0 THEN torn + 1 ELSE torn
            /\ out' = Append(out, MemoryWarning("write"))
    /\ summary' = None
    /\ pc' = "exit"
    /\ UNCHANGED <<step, messages, tool_calls, responses, answer, allowed,
                   pending_images, pending_documents, fs, invoked, requested, staged,
                   summaries, rich>>
    /\ UNCHANGED <<given, result, script, foreign>>

Next ==
    \/ ModelTurn
    \/ ModelCallFails
    \/ Confirm
    \/ Resolve
    \/ AppendResults
    \/ SaveMemory
    \/ WriteMemory

Spec == Init /\ [][Next]_vars

-----------------------------------------------------------------------------
(* The tool handlers update_file and bash, and load_recent_memory, called on  *)
(* their own, on inputs drawn from ToolInputs                                 *)

ToolsInit ==
    /\ pc = "handler"
    /\ step = 0
    /\ messages = <<Prompt>>
    /\ tool_calls = <<>>
    /\ responses = <<>>
    /\ answer = None
    /\ allowed = FALSE
    /\ pending_images = <<>>
    /\ pending_documents = <<>>
    /\ given \in ToolInputs
    /\ fs = IF given.tool = "update_file"
            THEN [InitialFiles EXCEPT !["notes.txt"] = given.text]
            ELSE InitialFiles
    /\ invoked = <<>>
    /\ requested = <<>>
    /\ staged = <<>>
    /\ appended = IF given.tool = "load_recent_memory" THEN given.entries ELSE <<>>
    /\ memory_file = LogOf(appended)
    /\ summaries = <<>>
    /\ out = <<>>
    /\ rich = 0
    /\ result = None
    /\ torn = 0
    /\ summary = None
    /\ script = "full"
    /\ foreign = FALSE

\* lines 69-81: update_file("notes.txt", old, new)
CallUpdateFile ==
    /\ pc = "handler"
    /\ given.tool = "update_file"
    /\ result = None
    /\ LET o == update_file("notes.txt", given.old, given.new, fs,
                            pending_images, pending_documents)
       IN  /\ result' = Some(o)
           /\ fs' = o.fs
    /\ UNCHANGED <<pc, step, messages, tool_calls, responses, answer, allowed,
                   pending_images, pending_documents, invoked, requested, staged,
                   memory_file, summaries, out, rich, appended, given, torn, summary,
                   script, foreign>>

\* lines 84-98: bash(command), the command doing given.run
CallBash ==
    /\ pc = "handler"
    /\ given.tool = "bash"
    /\ result = None
    /\ LET o == bash(given.run, fs, pending_images, pending_documents)
       IN  /\ result' = Some(o)
           /\ fs' = o.fs
    /\ memory_file' = MemoryAfter(memory_file, given.run.writes)
    /\ appended' = AppendedAfter(appended, given.run.writes)
    /\ foreign' = ForeignAfter(foreign, given.run.writes)
    /\ UNCHANGED <<pc, step, messages, tool_calls, responses, answer, allowed,
                   pending_images, pending_documents, invoked, requested, staged,
                   summaries, out, rich, given, torn, summary, script>>

\* lines 202-210: load_recent_memory(n)
CallLoadRecentMemory ==
    /\ pc = "handler"
    /\ given.tool = "load_recent_memory"
    /\ result = None
    /\ result' = Some(load_recent_memory(memory_file, given.n))
    /\ UNCHANGED <<pc, step, messages, tool_calls, responses, answer, allowed,
                   pending_images, pending_documents, fs, invoked, requested, staged,
                   memory_file, summaries, out, rich, appended, given, torn, summary,
                   script, foreign>>

ToolsNext ==
    \/ CallUpdateFile
    \/ CallBash
    \/ CallLoadRecentMemory

ToolsSpec == ToolsInit /\ [][ToolsNext]_vars

-----------------------------------------------------------------------------
(* MEMORY.md over the sessions: every run of main() in the directory reads   *)
(* the log with load_recent_memory(), goes through run() and, unless an       *)
(* exception ends it, through save_memory().  The model under test follows    *)
(* the script "memory".                                                       *)

MemoryInit ==
    /\ pc = "exit"
    /\ step = 0
    /\ messages = <<Prompt>>
    /\ tool_calls = <<>>
    /\ responses = <<>>
    /\ answer = None
    /\ allowed = FALSE
    /\ pending_images = <<>>
    /\ pending_documents = <<>>
    /\ fs = InitialFiles
    /\ invoked = <<>>
    /\ requested = <<>>
    /\ staged = <<>>
    /\ memory_file = Absent
    /\ summaries = <<>>
    /\ out = <<>>
    /\ rich = 0
    /\ appended = <<>>
    /\ given = None
    /\ result = None
    /\ torn = 0
    /\ summary = None
    /\ script = "memory"
    /\ foreign = FALSE

\* lines 299-308 of main(): a new process is started in the directory once
\* the process before it has ended; it reads the log and sets up the toolkit
\* and the conversation
LoadRecentMemory ==
    /\ pc \in {"exit", "crashed"}
    /\ Len(appended) + torn < MaxSaves
    /\ given' = [tool |-> "load_recent_memory", n |-> DEFAULT_N]
    /\ result' = Some(load_recent_memory(memory_file, DEFAULT_N))
    /\ pc' = "model"
    /\ step' = 0
    /\ messages' = <<Prompt>>
    /\ tool_calls' = <<>>
    /\ responses' = <<>>
    /\ answer' = None
    /\ allowed' = FALSE
    /\ pending_images' = <<>>
    /\ pending_documents' = <<>>
    /\ invoked' = <<>>
    /\ requested' = <<>>
    /\ staged' = <<>>
    /\ summaries' = <<>>
    /\ out' = <<>>
    /\ rich' = 0
    /\ summary' = None
    /\ UNCHANGED <<fs, memory_file, appended, torn, script, foreign>>

MemoryNext ==
    \/ LoadRecentMemory
    \/ ModelTurn
    \/ ModelCallFails
    \/ Confirm
    \/ Resolve
    \/ AppendResults
    \/ SaveMemory
    \/ WriteMemory

MemorySpec == MemoryInit /\ [][MemoryNext]_vars

-----------------------------------------------------------------------------
(* Vocabulary of the properties *)

LastMessage == messages[Len(messages)]

IsAssistant(m) == m.role = "assistant"

HasToolCalls(m) == IsAssistant(m) /\ \E k \in 1..Len(m.content) : m.content[k].type = "tool_call"

IsToolMessage(m) == m.role = "tool"

\* a user message that carries flushed attachments
IsFlush(m) ==
    /\ m.role = "user"
    /\ \E k \in 1..Len(m.content) : m.content[k].type \in {"image", "document"}

AssistantIndexes == {i \in 1..Len(messages) : IsAssistant(messages[i])}

\* run() has returned or raised
RunOver == pc \in {"save_memory", "write_memory", "exit", "crashed"}

\* run() is between the assistant message of a turn and its tool message
TurnInProgress == pc \in {"confirm", "execute", "append"}

\* every model request was answered by a turn
NoModelCallFailed == Len(requested) = Cardinality(AssistantIndexes)

\* an exception raised at the "Allow?" prompt ended run()
AbortedAtPrompt ==
    /\ pc = "crashed"
    /\ NoModelCallFailed
    /\ \A j \in 1..Len(invoked) :
            ~(invoked[j].step = step /\ invoked[j].index = Len(responses) + 1)

\* an exception raised by a tool handler ended run()
AbortedByTool == pc = "crashed" /\ NoModelCallFailed /\ ~AbortedAtPrompt

IsDenial(tr) == tr.response = None /\ tr.error = <<<<"User denied this action.">>>>

\* the payloads of the parts of type t of message m, in order
PartsOfType(m, t) == SelectSeq(m.content, LAMBDA part : part.type = t)

\* the answers of the model's inputs that say no explicitly
NegativeAnswers == { <<"n">>, <<"N", "O">> }

\* the answers of the model's inputs that are empty, "y" or "yes" once
\* surrounding whitespace and letter case are set aside
AffirmativeAnswers ==
    { <<>>, <<" ">>, <<"y">>, <<"\f", "Y", "E", "S", "U+00A0">> }

\* the number, within its turn, of the call that confirm_tool() was last called for
LastConfirmed == IF pc \in {"execute", "crashed"} THEN Len(responses) + 1 ELSE Len(responses)

InvokedHere(k) == \E j \in 1..Len(invoked) : invoked[j].step = step /\ invoked[j].index = k

Printed(line) == \E k \in 1..Len(out) : out[k] = line

-----------------------------------------------------------------------------
(* C1 .. C10 *)

\* C1: a run of the loop in which every model turn requests at least one tool
\* call makes exactly MAX_STEPS model turns and then ends with the
\* "(max steps reached)" notice; it never makes a (MAX_STEPS+1)-th turn.
C1_StepBoundTermination ==
    /\ step <= MAX_STEPS
    /\ Cardinality(AssistantIndexes) <= MAX_STEPS
    /\ (RunOver /\ NoModelCallFailed
            /\ \A i \in AssistantIndexes : HasToolCalls(messages[i]))
        => /\ Cardinality(AssistantIndexes) = MAX_STEPS
           /\ Printed(<<"(max steps reached)">>)

\* C2: when the user answers no to the prompt of a confirm-required call, the
\* result recorded for that call is the error "User denied this action." and
\* the call is never handed to toolkit.execute_tool_call.
C2_DenialPath ==
    (answer # None /\ answer[1] \in NegativeAnswers /\ pc # "execute")
    => /\ pc \in {"confirm", "append"}
       /\ LastConfirmed = Len(responses)
       /\ tool_calls[LastConfirmed].name \in CONFIRM_TOOLS
       /\ responses[LastConfirmed] =
              [call |-> tool_calls[LastConfirmed], response |-> <<>>,
               error |-> <<<<"User denied this action.">>>>]
       /\ ~InvokedHere(LastConfirmed)

\* a bash call was denied by the answer "n" after an earlier call of the turn
C2_Witness ==
    /\ pc = "append"
    /\ answer = Some(<<"n">>)
    /\ Len(responses) = 2
    /\ tool_calls[2].name = "bash"
    /\ IsDenial(responses[2])

\* C3: every model turn with n >= 1 tool-call requests is followed by exactly
\* one tool message with n results, the i-th answering the i-th request,
\* whatever the individual calls do.
C3_OneResultPerRequest ==
    \A i \in AssistantIndexes :
        (HasToolCalls(messages[i]) /\ ~(i = Len(messages) /\ TurnInProgress))
        => /\ i < Len(messages)
           /\ IsToolMessage(messages[i + 1])
           /\ (i + 2 <= Len(messages) => ~IsToolMessage(messages[i + 2]))
           /\ LET calls == ToolCallsOf(messages[i].content)
                  results == messages[i + 1].content
              IN  /\ Len(results) = Len(calls)
                  /\ \A k \in 1..Len(results) :
                        /\ results[k].type = "tool_response"
                        /\ results[k].tool_response.call = calls[k]

\* the calls of the model under test that fail in every state: an unknown
\* tool, a file that is never there, a string that is never in the file
FailsAlways(call) ==
    \/ call.name \notin REGISTRY
    \/ call.name = "read_file" /\ call.arguments[1] = "missing.txt"
    \/ call.name = "update_file" /\ call.arguments[2] = <<"z">>

\* the result tr records a failure: an error, or the output of a command with
\* its exit status
IsFailure(tr) ==
    \/ tr.response = None /\ tr.error # None
    \/ /\ tr.response # None
       /\ tr.error = None
       /\ \E k \in 1..Len(tr.response[1]) : tr.response[1][k] = "\n(exit code: "

C5_NaturalCompletion ==
    /\ \A i \in AssistantIndexes : ~HasToolCalls(messages[i]) => i = Len(messages)
    /\ (IsAssistant(LastMessage) /\ ~HasToolCalls(LastMessage))
        => /\ pc \in {"save_memory", "write_memory", "exit"}
           /\ Len(requested) = step
           /\ requested[step] = Len(messages) - 1
           /\ \A j \in 1..Len(invoked) : invoked[j].step < step
           /\ ~Printed(<<"(max steps reached)">>)

\* the loop ended by a final answer in its third step, after two tool turns
C5_Witness ==
    /\ pc = "save_memory"
    /\ step = 3
    /\ IsAssistant(LastMessage) /\ ~HasToolCalls(LastMessage)
    /\ IsToolMessage(messages[Len(messages) - 1])

\* the step that has just ended resolved tool calls
StepEnded == pc \in {"model", "save_memory", "write_memory", "exit"} /\ tool_calls # <<>>

IsImageUrl(u) == u.mime # "application/pdf"

IsDocumentUrl(u) == u.mime = "application/pdf"

\* the attachments of a message, in the order of its parts
AttachmentsOf(m) ==
    LET IsAtt(part) == part.type \in {"image", "document"}
        Payload(part) == IF part.type = "image" THEN part.image ELSE part.document
    IN  MapSeq(Payload, SelectSeq(m.content, IsAtt))

\* C6 as stated: the flush message carries the staged attachments in the
\* order they were staged.
C6_FlushInStagingOrder ==
    (StepEnded /\ staged # <<>>)
    => /\ IsFlush(LastMessage)
       /\ AttachmentsOf(LastMessage) = staged

\* C6, amended: at the end of a step that staged attachments, a user message
\* directly after the step's tool message carries each staged attachment
\* once, the images in staging order and the documents in staging order (the
\* order between an image and a document is not kept); a step that staged
\* nothing ends on its tool message; both queues are empty whenever a model
\* turn is requested.
C6_FlushPerKind ==
    /\ (StepEnded /\ staged # <<>>)
        => /\ IsFlush(LastMessage)
           /\ IsToolMessage(messages[Len(messages) - 1])
           /\ Len(LastMessage.content) = 1 + Len(staged)
           /\ LastMessage.content[1].type = "text"
           /\ MapSeq(LAMBDA part : part.image, PartsOfType(LastMessage, "image"))
                 = SelectSeq(staged, IsImageUrl)
           /\ MapSeq(LAMBDA part : part.document, PartsOfType(LastMessage, "document"))
                 = SelectSeq(staged, IsDocumentUrl)
    /\ (StepEnded /\ staged = <<>>) => IsToolMessage(LastMessage)
    /\ pc \in {"model", "save_memory"}
        => pending_images = <<>> /\ pending_documents = <<>>

\* a step staged a document and then an image, and they were flushed
C6_Witness ==
    /\ pc = "model"
    /\ Len(staged) = 2
    /\ IsDocumentUrl(staged[1]) /\ IsImageUrl(staged[2])
    /\ IsFlush(LastMessage)

FlushIndexes == {i \in 1..Len(messages) : IsFlush(messages[i])}

\* the number of the step in which message i was appended
StepOf(i) == Cardinality({a \in AssistantIndexes : a <= i})

\* C7 as stated: every flush message is in the input of a later model
\* request of the run.
C7_FlushAlwaysConsumed ==
    RunOver => \A i \in FlushIndexes : \E j \in 1..Len(requested) : requested[j] >= i

\* C7, amended: a flush message appended in a step before the MAX_STEPS-th
\* is the end of the conversation handed to the model request of the next
\* step; one appended in the MAX_STEPS-th step is seen by no model request.
C7_FlushConsumedUnlessLastStep ==
    \A i \in FlushIndexes :
        IF StepOf(i) < MAX_STEPS
        THEN \/ i = Len(messages) /\ pc = "model"
             \/ Len(requested) > StepOf(i) /\ requested[StepOf(i) + 1] = i
        ELSE /\ i = Len(messages)
             /\ RunOver
             /\ \A j \in 1..Len(requested) : requested[j] < i

\* attachments flushed in one step were handed to the request of the next
\* step, which was answered
C7_Witness ==
    \E i \in FlushIndexes :
        /\ StepOf(i) < MAX_STEPS
        /\ Len(requested) > StepOf(i)
        /\ requested[StepOf(i) + 1] = i
        /\ Len(messages) > i
        /\ IsAssistant(messages[i + 1])

\* C8 as stated: a confirm-required call is denied only on an explicit
\* negative answer.
C8_OnlyExplicitNoDenies ==
    (pc = "execute" /\ answer # None /\ ~allowed) => answer[1] \in NegativeAnswers

\* C8, amended: a confirm-required call is allowed, and then handed to the
\* gateway, exactly when the answer is empty, "y" or "yes" after stripping
\* whitespace and lowering case; every other answer, not only "n" or "no",
\* denies it.  A call that needs no confirmation is allowed without a prompt.
C8_AffirmativeOrDenied ==
    /\ (pc = "execute" /\ answer # None)
        => /\ tool_calls[LastConfirmed].name \in CONFIRM_TOOLS
           /\ allowed <=> answer[1] \in AffirmativeAnswers
    /\ (pc = "execute" /\ answer = None)
        => /\ tool_calls[LastConfirmed].name \notin CONFIRM_TOOLS
           /\ allowed
    /\ (pc \in {"confirm", "append", "crashed"} /\ answer # None)
        => IF answer[1] \in AffirmativeAnswers
           THEN InvokedHere(LastConfirmed)
           ELSE /\ pc # "crashed"
                /\ IsDenial(responses[LastConfirmed])
                /\ ~InvokedHere(LastConfirmed)

\* the answer "ok" denied a write_file call
C8_Witness ==
    /\ pc = "append"
    /\ answer = Some(<<"o", "k">>)
    /\ tool_calls[Len(responses)].name = "write_file"
    /\ IsDenial(responses[Len(responses)])

\* C9: a failure of save_memory(), wherever it happens, is reported as a
\* warning and main() still returns normally; it never ends the session as
\* a failure.
C9_MemoryFailureNotFatal ==
    /\ summaries # <<>> => pc \in {"write_memory", "exit"}
    /\ \A e \in SaveFailures :
          Printed(<<"(failed to save memory: ", e, ")">>)
          => pc = "exit" /\ out[Len(out)] = <<"(failed to save memory: ", e, ")">>

\* the summarisation call failed after a step-limited run
C9_Witness ==
    /\ pc = "exit"
    /\ Printed(<<"(max steps reached)">>)
    /\ Printed(<<"(failed to save memory: ", "memory_llm", ")">>)

\* C10: save_memory() runs exactly once after the loop has ended, by a final
\* answer or by the step limit, and is handed the whole conversation as the
\* loop left it.
C10_CompactorOnceWithFullConversation ==
    /\ Len(summaries) <= 1
    /\ pc \notin {"write_memory", "exit"} => summaries = <<>>
    /\ pc \in {"write_memory", "exit"} => summaries = <<messages>>

\* a step-limited run whose last step flushed attachments was summarised
C10_Witness ==
    /\ pc = "exit"
    /\ step = MAX_STEPS
    /\ Printed(<<"(max steps reached)">>)
    /\ IsFlush(LastMessage)
    /\ summaries = <<messages>>

-----------------------------------------------------------------------------
(* The memory log (ToolsSpec, MemorySpec) *)

\* the text of an entry between its two delimiter lines
EntryText(e) ==
    LET t == Strip(e) IN Strip(SubSeq(t, Len(DASHES) + 1, Len(t) - Len(DASHES)))

\* load_recent_memory has returned, on the log made of the entries appended
MemoryLoaded == pc = "handler" /\ given.tool = "load_recent_memory" /\ result # None

\* the context that shows the entries es, in the layout of load_recent_memory
ContextOf(es) ==
    DASHES \o NL \o JoinWith(NL \o DASHES \o NL, es) \o NL \o DASHES

\* C11: on a log of k >= 1 entries, each written whole,
\* load_recent_memory(n) returns the last
\* min(n, k) entries, in their order in the log: never more than n entries and
\* never reordered.
C11_RecentMemorySelection ==
    (MemoryLoaded /\ Len(appended) >= 1) =>
        LET k == Len(appended)
            m == IF given.n <= k THEN given.n ELSE k
            expected == [i \in 1..m |-> EntryText(appended[k - m + i])]
        IN  IF m = 0 THEN result[1] \in {<<>>, ContextOf(<<>>)}
            ELSE result[1] = ContextOf(expected)

IsPrefix(a, b) == Len(a) <= Len(b) /\ SubSeq(b, 1, Len(a)) = a

\* a step of save_memory() leaves the text MEMORY.md had as a prefix of its
\* text, does not remove the file, and keeps the entries written so far first
SaveOnlyAppends ==
    pc \in {"save_memory", "write_memory"} =>
        /\ IsPrefix(FileText(memory_file), FileText(memory_file'))
        /\ memory_file # Absent => memory_file' # Absent
        /\ IsPrefix(appended, appended')

\* C12: save_memory() only appends to MEMORY.md: in every step of a call the
\* text the file had is a prefix of the text it has afterwards, and the file
\* is not removed; the entries written so far stay the first entries written.
C12_LogAppendOnly == [][SaveOnlyAppends]_vars

\* a second entry was appended to a log that a shell command had written
C12_Witness ==
    /\ pc = "exit"
    /\ foreign
    /\ Len(appended) >= 2
    /\ IsPrefix(<<"x">> \o Written(<<"x">>, appended[1]), memory_file)
    /\ Len(memory_file) > Len(<<"x">> \o Written(<<"x">>, appended[1]))

\* an entry in the format asked of the summarising model: from its opening
\* '---' line to its closing '---' line, with or without a final newline
WellFormed(e) ==
    /\ StartsWith(e, DASHES \o NL)
    /\ EndsWith(e, NL \o DASHES) \/ EndsWith(e, NL \o DASHES \o NL)

\* an entry without its final newline
Trimmed(e) == IF EndsWith(e, <<"\n">>) THEN SubSeq(e, 1, Len(e) - 1) ELSE e

\* every write to MEMORY.md so far was a whole well-formed entry written by
\* save_memory()
OnlyWellFormedAppended ==
    /\ torn = 0
    /\ ~foreign
    /\ Len(appended) >= 1
    /\ \A i \in 1..Len(appended) : WellFormed(appended[i])

\* C13 as stated: after appends of well-formed entries the closing '---' line
\* of an entry is directly followed by the opening '---' line of the next (no
\* blank line between them), and the first line of the file is the opening
\* '---' of the first entry.
C13_NoBlankLineBetweenEntries ==
    OnlyWellFormedAppended =>
        /\ StartsWith(memory_file, DASHES \o NL)
        /\ memory_file = JoinWith(NL, MapSeq(Trimmed, appended)) \o NL

\* C13, amended: after appends of well-formed entries consecutive entries are
\* separated by exactly one blank line (closing '---' line, one empty line,
\* opening '---' line), the file ends with one newline, and the first line of
\* the file is the opening '---' of the first entry.
C13_OneBlankLineBetweenEntries ==
    OnlyWellFormedAppended =>
        /\ StartsWith(memory_file, DASHES \o NL)
        /\ memory_file = JoinWith(NL \o NL, MapSeq(Trimmed, appended)) \o NL

C13_Witness ==
    /\ OnlyWellFormedAppended
    /\ Len(appended) >= 3
    /\ ~EndsWith(appended[1], <<"\n">>)
    /\ EndsWith(appended[2], <<"\n">>)
    /\ Contains(memory_file, DASHES \o NL \o NL \o DASHES)

-----------------------------------------------------------------------------
(* update_file and bash called on their own (ToolsSpec) *)

\* update_file has been called on a file that exists
UpdateFileCalled ==
    /\ result # None
    /\ given.tool = "update_file"
    /\ given.text # Absent

\* old occurs in text at position i
OccursAt(text, old, i) ==
    /\ i \in 1..(Len(text) + 1)
    /\ i + Len(old) - 1 <= Len(text)
    /\ \A k \in 1..Len(old) : text[i + k - 1] = old[k]

\* C14: update_file(path, old, new) with old not occurring in the text of the
\* file ends in the ToolError "String not found in <path>" and leaves the file
\* (and every other file) as it was.
C14_AbsentOldIsToolError ==
    (UpdateFileCalled /\ \A i \in 1..(Len(given.text) + 1) : ~OccursAt(given.text, given.old, i))
        => /\ result[1].kind = "ToolError"
           /\ result[1].value = <<"String not found in ", "notes.txt">>
           /\ fs["notes.txt"] = given.text
           /\ \A p \in Paths \ {"notes.txt"} : fs[p] = InitialFiles[p]

C14_Witness ==
    /\ UpdateFileCalled
    /\ given.text = <<"a", "b", "a">>
    /\ given.old = <<"b", "b">>
    /\ result[1].kind = "ToolError"
    /\ fs["notes.txt"] = <<"a", "b", "a">>

\* C15: update_file(path, old, new) with old occurring in the text replaces
\* the leftmost occurrence by new: the text before it and the text after it,
\* further occurrences included, are kept as they were.
C15_FirstOccurrenceReplaced ==
    (UpdateFileCalled /\ \E i \in 1..(Len(given.text) + 1) : OccursAt(given.text, given.old, i))
        => /\ result[1].kind = "return"
           /\ \E i \in 1..(Len(given.text) + 1) :
                /\ OccursAt(given.text, given.old, i)
                /\ \A j \in 1..(i - 1) : ~OccursAt(given.text, given.old, j)
                /\ fs["notes.txt"] =
                      SubSeq(given.text, 1, i - 1) \o given.new
                        \o SubSeq(given.text, i + Len(given.old), Len(given.text))

C15_Witness ==
    /\ UpdateFileCalled
    /\ given.text = <<"b", "a", "a">>
    /\ given.old = <<"a">>
    /\ given.new = <<"x">>
    /\ fs["notes.txt"] = <<"b", "x", "a">>

\* bash has been called and the command finished within the timeout
BashFinished ==
    /\ result # None
    /\ given.tool = "bash"
    /\ ~given.run.timeout

\* C16: bash returns stdout followed by stderr, followed by the marker
\* "\n(exit code: <n>)" exactly when the exit status n is not 0; with exit
\* status 0 and both streams empty it returns "(no output)"; it never returns
\* the empty string.
C16_BashResultShape ==
    BashFinished =>
        LET r == given.run
            marker == IF r.returncode = 0 THEN <<>>
                      ELSE <<"\n(exit code: ", ToString(r.returncode), ")">>
        IN  /\ result[1].kind = "return"
            /\ result[1].value # <<>>
            /\ result[1].value =
                  IF r.returncode = 0 /\ r.stdout = <<>> /\ r.stderr = <<>>
                  THEN <<"(no output)">>
                  ELSE r.stdout \o r.stderr \o marker

C16_Witness ==
    /\ BashFinished
    /\ given.run.returncode = 0
    /\ given.run.stdout = <<>>
    /\ given.run.stderr = <<>>
    /\ result[1].value = <<"(no output)">>

-----------------------------------------------------------------------------
(* C17 .. C20: the conversation and the order of events in run() *)

\* C17: the conversation only grows during run() and main(): every step
\* leaves the messages it had as a prefix of the messages it has; a model
\* turn that is answered appends exactly its assistant message, with or
\* without tool calls, and a turn without tool calls ends the loop with that
\* message as the last message of the conversation.
C17_ConversationAppendOnly ==
    [][/\ IsPrefix(messages, messages')
       /\ (pc = "model" /\ pc' # "crashed" /\ step' = step + 1)
            => /\ Len(messages') = Len(messages) + 1
               /\ IsAssistant(messages'[Len(messages')])
               /\ pc' = "save_memory" <=> ~HasToolCalls(messages'[Len(messages')])
       /\ pc \in {"save_memory", "write_memory", "exit"} => messages' = messages]_vars

C17_Witness ==
    /\ pc = "exit"
    /\ Len(messages) >= 4
    /\ IsAssistant(LastMessage) /\ ~HasToolCalls(LastMessage)
    /\ summaries = <<messages>>

\* C18: the calls of a turn are resolved one at a time in the order the model
\* emitted them: result k answers call k; a call is handed to
\* execute_tool_call only after confirm_tool returned for it, and it has
\* returned before confirm_tool is called for the next call; no model request
\* is issued between the assistant message of a turn and its tool message.
C18_SequentialResolution ==
    /\ Len(responses) <= Len(tool_calls)
    /\ \A k \in 1..Len(responses) : responses[k].call = tool_calls[k]
    /\ \A j \in 2..Len(invoked) :
            \/ invoked[j - 1].step < invoked[j].step
            \/ /\ invoked[j - 1].step = invoked[j].step
               /\ invoked[j - 1].index < invoked[j].index
    /\ \A j \in 1..Len(invoked) :
            invoked[j].step = step
                => /\ invoked[j].call = tool_calls[invoked[j].index]
                   /\ invoked[j].index <= LastConfirmed
    /\ pc = "execute" => ~InvokedHere(Len(responses) + 1)
    /\ pc = "confirm" => \A k \in 1..Len(tool_calls) : InvokedHere(k) => k <= Len(responses)
    /\ TurnInProgress
            => /\ Len(requested) = step
               /\ requested[step] = Len(messages) - 1
               /\ HasToolCalls(LastMessage)
    /\ pc = "model" => Len(responses) = Len(tool_calls)

C18_Witness ==
    /\ pc = "confirm"
    /\ Len(tool_calls) = 2
    /\ Len(responses) = 1
    /\ tool_calls[1] # tool_calls[2]
    /\ tool_calls[2].name \in CONFIRM_TOOLS
    /\ InvokedHere(1)

\* C19: when run() is over, "(max steps reached)" has been printed if and
\* only if MAX_STEPS model turns were made and each of them requested at
\* least one tool call; a run with a turn without tool calls, the
\* MAX_STEPS-th included, ends without the notice.
C19_NoticeIffAllTurnsCalledTools ==
    RunOver =>
        (Printed(<<"(max steps reached)">>)
            <=> /\ Cardinality(AssistantIndexes) = MAX_STEPS
                /\ \A i \in AssistantIndexes : HasToolCalls(messages[i]))

\* the calls answered by a tool message, in order
CallsAnswered(m) ==
    LET Call(part) == part.tool_response.call
    IN  MapSeq(Call, m.content)

\* C20: the conversation starts with the user's prompt; a tool message
\* directly follows the assistant message whose calls it answers, one result
\* per call in order; a user message with attachments directly follows a tool
\* message; an assistant message directly follows the prompt, a tool message
\* or a user message with attachments, never another assistant message.
C20_ConversationShape ==
    /\ messages[1] = Prompt
    /\ \A i \in 2..Len(messages) :
        LET m == messages[i]
            before == messages[i - 1]
        IN  /\ m.role \in {"assistant", "tool", "user"}
            /\ IsToolMessage(m)
                    => /\ HasToolCalls(before)
                       /\ CallsAnswered(m) = ToolCallsOf(before.content)
            /\ m.role = "user" => IsFlush(m) /\ IsToolMessage(before)
            /\ IsAssistant(m)
                    => \/ i = 2
                       \/ IsToolMessage(before)
                       \/ IsFlush(before)

C20_Witness ==
    \E i \in 2..(Len(messages) - 3) :
        /\ HasToolCalls(messages[i])
        /\ IsToolMessage(messages[i + 1])
        /\ Len(messages[i + 1].content) = 2
        /\ IsFlush(messages[i + 2])
        /\ IsAssistant(messages[i + 3])

====
